---- MODULE Spec2Model ----
(***************************************************************************)
(* Model of sse-agent: the incremental SSE Parser (src/src/parser.rs) and  *)
(* the Body stream adapter (src/src/body.rs, src/src/lib.rs).              *)
(*                                                                         *)
(* Bytes are naturals 0..255; a byte string (Bytes, BytesMut, &[u8]) and a *)
(* String (always valid UTF-8) are sequences of bytes.  Option<T> is a     *)
(* sequence of length 0 (None) or 1 (Some).  Source indices are 0-based,   *)
(* TLA+ sequences 1-based: buf[i] of the source is buf[i + 1] here.        *)
(***************************************************************************)
EXTENDS Integers, Sequences, FiniteSets, TLC

\* ------------------------------------------------------------------ bytes

CR == 13

LF == 10

COLON == 58

NULL == 0

SPACE == 32

\* b"event", b"data", b"id", b"retry" of add_field, as bytes
NameEvent == <<101, 118, 101, 110, 116>>

NameData == <<100, 97, 116, 97>>

NameId == <<105, 100>>

NameRetry == <<114, 101, 116, 114, 121>>

None == <<>>

Some(x) == <<x>>

IsSome(o) == Len(o) = 1

\* s[from..] of the source (0-based from)
SliceFrom(s, from) == SubSeq(s, from + 1, Len(s))

\* s[0..to] of the source (exclusive 0-based to)
SliceTo(s, to) == SubSeq(s, 1, to)

\* memchr(b, s): 0-based index of the first b in s
Memchr(b, s) ==
  IF \E i \in 1..Len(s) : s[i] = b
  THEN Some((CHOOSE i \in 1..Len(s) : s[i] = b /\ \A j \in 1..(i - 1) : s[j] # b) - 1)
  ELSE None

\* memchr2(a, b, s): 0-based index of the first a or b in s
Memchr2(a, b, s) ==
  IF \E i \in 1..Len(s) : s[i] \in {a, b}
  THEN Some((CHOOSE i \in 1..Len(s) :
               s[i] \in {a, b} /\ \A j \in 1..(i - 1) : s[j] \notin {a, b}) - 1)
  ELSE None

\* ------------------------------------------------------------------ UTF-8

IsCont(b) == b >= 128 /\ b <= 191

\* Number of bytes of the well-formed UTF-8 scalar value at the head of s,
\* 0 when the head of s is not one (str::from_utf8 accepts exactly the
\* well-formed sequences of the Unicode standard, table 3-7).
Utf8Width(s) ==
  LET n == Len(s)
      b1 == s[1]
      c(i) == i <= n /\ IsCont(s[i])
      r(i, lo, hi) == i <= n /\ s[i] >= lo /\ s[i] <= hi
  IN  IF b1 < 128 THEN 1
      ELSE IF b1 >= 194 /\ b1 <= 223 THEN (IF c(2) THEN 2 ELSE 0)
      ELSE IF b1 = 224 THEN (IF r(2, 160, 191) /\ c(3) THEN 3 ELSE 0)
      ELSE IF (b1 >= 225 /\ b1 <= 236) \/ b1 \in {238, 239}
        THEN (IF c(2) /\ c(3) THEN 3 ELSE 0)
      ELSE IF b1 = 237 THEN (IF r(2, 128, 159) /\ c(3) THEN 3 ELSE 0)
      ELSE IF b1 = 240 THEN (IF r(2, 144, 191) /\ c(3) /\ c(4) THEN 4 ELSE 0)
      ELSE IF b1 >= 241 /\ b1 <= 243 THEN (IF c(2) /\ c(3) /\ c(4) THEN 4 ELSE 0)
      ELSE IF b1 = 244 THEN (IF r(2, 128, 143) /\ c(3) /\ c(4) THEN 4 ELSE 0)
      ELSE 0

RECURSIVE Utf8Valid(_)
\* str::from_utf8(value_bs).is_ok()
Utf8Valid(s) ==
  IF s = <<>> THEN TRUE
  ELSE LET w == Utf8Width(s)
       IN  w > 0 /\ Utf8Valid(SliceFrom(s, w))

\* value.contains(NULL): U+0000 is encoded as the single byte 0 and no other
\* scalar value's encoding holds a 0 byte
ContainsNull(value) == \E i \in 1..Len(value) : value[i] = NULL

\* value.chars().all(|c| c.is_digit(10))
AllDigits(value) == \A i \in 1..Len(value) : value[i] >= 48 /\ value[i] <= 57

\* ------------------------------------------------------------------ EventBuilder

\* Option::take().unwrap_or_else(String::new)
TakeOrEmpty(o) == IF IsSome(o) THEN o[1] ELSE <<>>

\* EventBuilder::default()
EmptyBuilder == [event_type |-> None, data |-> None, last_event_id |-> None]

\* AddValid with the line feed pushed after each data value instead of
\* before every value but the first
AddValidTrailingLF(b, name, value) ==
  IF name = NameEvent
    THEN [b EXCEPT !.event_type = Some(value)]
  ELSE IF name = NameData
    THEN [b EXCEPT !.data = Some(TakeOrEmpty(b.data) \o value \o <<LF>>)]
  ELSE IF name = NameId /\ ~ContainsNull(value)
    THEN [b EXCEPT !.last_event_id = Some(value)]
  ELSE b

\* AddValid that takes a name it does not know for event
AddValidAnyName(b, name, value) ==
  IF name = NameData
    THEN IF IsSome(b.data)
           THEN [b EXCEPT !.data = Some(b.data[1] \o <<LF>> \o value)]
           ELSE [b EXCEPT !.data = Some(value)]
  ELSE IF name = NameId /\ ~ContainsNull(value)
    THEN [b EXCEPT !.last_event_id = Some(value)]
  ELSE IF name \in {NameId, NameRetry}
    THEN b
  ELSE [b EXCEPT !.event_type = Some(value)]

\* AddValid that forgets the id it holds when an id with U+0000 arrives
AddValidNulResets(b, name, value) ==
  IF name = NameEvent
    THEN [b EXCEPT !.event_type = Some(value)]
  ELSE IF name = NameData
    THEN IF IsSome(b.data)
           THEN [b EXCEPT !.data = Some(b.data[1] \o <<LF>> \o value)]
           ELSE [b EXCEPT !.data = Some(value)]
  ELSE IF name = NameId
    THEN [b EXCEPT !.last_event_id = IF ContainsNull(value) THEN None ELSE Some(value)]
  ELSE b

\* EventBuilder::add_field on a value that decoded as UTF-8: the new builder
AddValid(b, name, value) ==
  IF name = NameEvent
    THEN [b EXCEPT !.event_type = Some(value)]
  ELSE IF name = NameData
    THEN IF IsSome(b.data)
           THEN [b EXCEPT !.data = Some(b.data[1] \o <<LF>> \o value)]
           ELSE [b EXCEPT !.data = Some(value)]
  ELSE IF name = NameId /\ ~ContainsNull(value)
    THEN [b EXCEPT !.last_event_id = Some(value)]
  ELSE IF name = NameRetry /\ AllDigits(value)
    THEN b
  ELSE b

\* add_field that empties the builder when the value does not decode
add_field_clears(b, name, value_bs) ==
  IF Utf8Valid(value_bs)
    THEN [ok |-> TRUE, builder |-> AddValid(b, name, value_bs)]
    ELSE [ok |-> FALSE, builder |-> EmptyBuilder]

\* EventBuilder::add_field: [ok, builder]; Err(Error::Utf8) leaves the
\* builder as it was (the ? on the first line returns before any write)
add_field(b, name, value_bs) ==
  IF Utf8Valid(value_bs)
    THEN [ok |-> TRUE, builder |-> AddValid(b, name, value_bs)]
    ELSE [ok |-> FALSE, builder |-> b]

\* ready that asks for data alone
ready_data_only(b) == IsSome(b.data)

\* ready without its test
ready_always(b) == TRUE

\* EventBuilder::ready
ready(b) == IsSome(b.event_type) \/ IsSome(b.data) \/ IsSome(b.last_event_id)

\* build_and_clear with a last_event_id that outlives the Event
build_and_clear_sticky(b) ==
  [event |-> [event |-> TakeOrEmpty(b.event_type),
              data |-> TakeOrEmpty(b.data),
              last_event_id |-> b.last_event_id],
   builder |-> [EmptyBuilder EXCEPT !.last_event_id = b.last_event_id]]

\* EventBuilder::build_and_clear: the Event built and the builder left, every
\* field of which take() has emptied
build_and_clear(b) ==
  [event |-> [event |-> TakeOrEmpty(b.event_type),
              data |-> TakeOrEmpty(b.data),
              last_event_id |-> b.last_event_id],
   builder |-> EmptyBuilder]

\* ------------------------------------------------------------------ Parser

\* Parser::parse_line: [line (Option<Bytes>), buf (the buffer left)]
parse_line(b) ==
  LET m == Memchr2(CR, LF, b)
  IN  IF IsSome(m)
        THEN LET i == m[1]
                 line == SliceTo(b, i)
                 rest == SliceFrom(b, i)
                 left == IF rest # <<>>
                           THEN IF 2 < Len(rest) /\ SliceTo(rest, 2) = <<CR, LF>>
                                  THEN SliceFrom(rest, 2)
                                  ELSE SliceFrom(rest, 1)
                           ELSE rest
             IN  [line |-> Some(line), buf |-> left]
        ELSE [line |-> None, buf |-> b]

\* ValueAfterColon that drops every space that follows the colon
ValueTrimmed(line, i) ==
  LET raw == SliceFrom(line, i + 1)
      k == CHOOSE k \in 0..Len(raw) :
             /\ \A j \in 1..k : raw[j] = SPACE
             /\ k = Len(raw) \/ raw[k + 1] # SPACE
  IN  SliceFrom(raw, k)

\* The value of a field line whose first colon is at 0-based index i > 0
ValueAfterColon(line, i) ==
  IF i + 1 < Len(line) /\ line[i + 2] = SPACE
    THEN SliceFrom(line, i + 2)
    ELSE SliceFrom(line, i + 1)

\* Results of Parser::next: None, Some(Ok(ev)), Some(Err(Error::Utf8(_)))
NoEvent == <<"none">>

OkEvent(ev) == <<"ok", ev>>

ErrUtf8 == <<"err", "Utf8">>

\* The body of next()'s loop for one extracted line: [done, result, builder]
NextOnLine(line, b) ==
  IF line = <<>> /\ ready(b)
    THEN [done |-> TRUE, result |-> OkEvent(build_and_clear(b).event),
          builder |-> build_and_clear(b).builder]
  ELSE LET c == Memchr(COLON, line)
       IN  IF c = Some(0)
             THEN [done |-> FALSE, result |-> NoEvent, builder |-> b]
           ELSE LET r == IF IsSome(c)
                           THEN add_field(b, SliceTo(line, c[1]), ValueAfterColon(line, c[1]))
                           ELSE add_field(b, line, <<>>)
                IN  IF r.ok
                      THEN [done |-> FALSE, result |-> NoEvent, builder |-> r.builder]
                      ELSE [done |-> TRUE, result |-> ErrUtf8, builder |-> r.builder]

\* next() with an if in place of its while: one line a call
NextLoopOnce(b, bl, trace) ==
  LET pl == parse_line(b)
  IN  IF ~IsSome(pl.line)
        THEN [buf |-> b, builder |-> bl, result |-> NoEvent, trace |-> trace]
      ELSE LET line == pl.line[1]
               s == NextOnLine(line, bl)
           IN  [buf |-> pl.buf, builder |-> s.builder, result |-> s.result,
                trace |-> Append(trace, [line |-> line, builder |-> bl])]

RECURSIVE NextLoop(_, _, _)

\* next() with a break in place of the continue of its comment arm
NextLoopBreakOnComment(b, bl, trace) ==
  LET pl == parse_line(b)
  IN  IF ~IsSome(pl.line)
        THEN [buf |-> b, builder |-> bl, result |-> NoEvent, trace |-> trace]
      ELSE LET line == pl.line[1]
               s == NextOnLine(line, bl)
               t == Append(trace, [line |-> line, builder |-> bl])
           IN  IF s.done \/ Memchr(COLON, line) = Some(0)
                 THEN [buf |-> pl.buf, builder |-> s.builder, result |-> s.result, trace |-> t]
                 ELSE NextLoop(pl.buf, s.builder, t)

\* Parser::next from buffer b and builder bl: [buf, builder, result, trace],
\* trace being the lines this call extracted, each with the builder it met
NextLoop(b, bl, trace) ==
  LET pl == parse_line(b)
  IN  IF ~IsSome(pl.line)
        THEN [buf |-> b, builder |-> bl, result |-> NoEvent, trace |-> trace]
      ELSE LET line == pl.line[1]
               s == NextOnLine(line, bl)
               t == Append(trace, [line |-> line, builder |-> bl])
           IN  IF s.done
                 THEN [buf |-> pl.buf, builder |-> s.builder, result |-> s.result, trace |-> t]
                 ELSE NextLoop(pl.buf, s.builder, t)

next(b, bl) == NextLoop(b, bl, <<>>)

\* put that writes the chunk before the bytes already buffered
put_front(b, bs) == bs \o b

\* Parser::put: the buffer after appending the chunk bs
put(b, bs) == b \o bs

\* ------------------------------------------------------------------ Body

\* Error::parser and Error::inner: the ErrorKind the adapter's error holds
ErrorParser(err) == <<"Sse", err>>

ErrorInner(err) == <<"Inner", err>>

\* Results of a poll: Poll::Pending, Poll::Ready(None), Poll::Ready(Some(item))
Pending == <<"pending">>

ReadyNone == <<"ready_none">>

ReadySome(item) == <<"ready", item>>

\* The upstream stream S: the items it has ready, in order, each
\* <<"chunk", bytes>> or <<"err", e>>, and whether it has ended.
\* inner.poll_next: the answer and the items left
inner_poll(q, ended) ==
  IF q # <<>> THEN [answer |-> ReadySome(Head(q)), queue |-> Tail(q)]
  ELSE IF ended THEN [answer |-> ReadyNone, queue |-> q]
  ELSE [answer |-> Pending, queue |-> q]

\* What Body::poll_next returns for a result of Parser::next that is not None
YieldParsed(result) ==
  IF result[1] = "ok"
    THEN ReadySome(<<"ok", result[2]>>)
    ELSE ReadySome(<<"err", ErrorParser(result[2])>>)

\* What a poll leaves and returns: the parser, the items upstream still has,
\* the result, and the log of the calls the poll made on the parser
\* (<<"next", result>>) and on upstream (<<"inner", answer>>)
Outcome(b, bl, q, result, log) ==
  [buf |-> b, builder |-> bl, queue |-> q, result |-> result, log |-> log]

RECURSIVE PollLoop(_, _, _, _, _)

\* PollAfterInner that drops the builder's fields when upstream is not ready
PollForgetOnPending(b, bl, a, ended, log) ==
  IF a.answer = Pending
    THEN Outcome(b, EmptyBuilder, a.queue, a.answer, log)
  ELSE IF a.answer = ReadyNone
    THEN Outcome(b, bl, a.queue, a.answer, log)
  ELSE IF a.answer[2][1] = "err"
    THEN Outcome(b, bl, a.queue, ReadySome(<<"err", ErrorInner(a.answer[2][2])>>), log)
  ELSE PollLoop(put(b, a.answer[2][2]), bl, a.queue, ended, log)

\* PollAfterInner that empties the parser when upstream yields an error
PollResetOnError(b, bl, a, ended, log) ==
  IF a.answer = Pending \/ a.answer = ReadyNone
    THEN Outcome(b, bl, a.queue, a.answer, log)
  ELSE IF a.answer[2][1] = "err"
    THEN Outcome(<<>>, EmptyBuilder, a.queue,
                 ReadySome(<<"err", ErrorInner(a.answer[2][2])>>), log)
  ELSE PollLoop(put(b, a.answer[2][2]), bl, a.queue, ended, log)

\* The match on upstream's answer a, the parser being (b, bl)
PollAfterInner(b, bl, a, ended, log) ==
  IF a.answer = Pending \/ a.answer = ReadyNone
    THEN Outcome(b, bl, a.queue, a.answer, log)
  ELSE IF a.answer[2][1] = "err"
    THEN Outcome(b, bl, a.queue, ReadySome(<<"err", ErrorInner(a.answer[2][2])>>), log)
  ELSE PollLoop(put(b, a.answer[2][2]), bl, a.queue, ended, log)

\* The call of upstream and the log entry of it
PollInner(b, bl, a, ended, log) ==
  PollAfterInner(b, bl, a, ended, Append(log, <<"inner", a.answer>>))

\* The match on the parser's answer r, then the call of upstream
PollAfterNext(r, q, ended, log) ==
  IF r.result # NoEvent
    THEN Outcome(r.buf, r.builder, q, YieldParsed(r.result), log)
    ELSE PollInner(r.buf, r.builder, inner_poll(q, ended), ended, log)

\* The call of the parser and the log entry of it
PollNext(r, q, ended, log) ==
  PollAfterNext(r, q, ended, Append(log, <<"next", r.result>>))

\* poll_next that dispatches what the builder holds when upstream ends
FlushAfterInner(b, bl, a, ended, log) ==
  IF a.answer = ReadyNone /\ ready(bl)
    THEN Outcome(b, build_and_clear(bl).builder, a.queue,
                 ReadySome(<<"ok", build_and_clear(bl).event>>),
                 Append(log, <<"inner", a.answer>>))
    ELSE PollInner(b, bl, a, ended, log)

FlushAfterNext(r, q, ended, log) ==
  IF r.result # NoEvent
    THEN Outcome(r.buf, r.builder, q, YieldParsed(r.result), log)
    ELSE FlushAfterInner(r.buf, r.builder, inner_poll(q, ended), ended, log)

FlushNext(r, q, ended, log) ==
  FlushAfterNext(r, q, ended, Append(log, <<"next", r.result>>))

PollFlushAtEnd(b, bl, q, ended, log) == FlushNext(next(b, bl), q, ended, log)

\* poll_next that pulls from upstream before it asks the parser
PullThenNext(r, a, ended, log) ==
  IF r.result # NoEvent
    THEN Outcome(r.buf, r.builder, a.queue, YieldParsed(r.result),
                 Append(log, <<"next", r.result>>))
  ELSE IF a.answer = Pending \/ a.answer = ReadyNone
    THEN Outcome(r.buf, r.builder, a.queue, a.answer, Append(log, <<"next", r.result>>))
  ELSE PollLoop(r.buf, r.builder, a.queue, ended, Append(log, <<"next", r.result>>))

PullAfterInner(b, bl, a, ended, log) ==
  IF a.answer = Pending \/ a.answer = ReadyNone
    THEN PullThenNext(next(b, bl), a, ended, log)
  ELSE IF a.answer[2][1] = "err"
    THEN Outcome(b, bl, a.queue, ReadySome(<<"err", ErrorInner(a.answer[2][2])>>), log)
  ELSE PullThenNext(next(put(b, a.answer[2][2]), bl), a, ended, log)

PullInner(b, bl, a, ended, log) ==
  PullAfterInner(b, bl, a, ended, Append(log, <<"inner", a.answer>>))

PollPullFirst(b, bl, q, ended, log) == PullInner(b, bl, inner_poll(q, ended), ended, log)

\* The loop of Body::poll_next of body.rs, from parser (b, bl) and upstream
\* (q, ended), log being the calls the poll has made so far
PollLoop(b, bl, q, ended, log) == PollNext(next(b, bl), q, ended, log)

\* Body::poll_next of body.rs
poll_next(b, bl, q, ended) == PollLoop(b, bl, q, ended, <<>>)

\* Body::poll_next of lib.rs, the match on upstream's answer a: an answer
\* that is a chunk is put and Poll::Ready(None) returned
LibAfterInner(b, bl, a, log) ==
  IF a.answer = Pending \/ a.answer = ReadyNone
    THEN Outcome(b, bl, a.queue, a.answer, log)
  ELSE IF a.answer[2][1] = "err"
    THEN Outcome(b, bl, a.queue, ReadySome(<<"err", ErrorInner(a.answer[2][2])>>), log)
  ELSE Outcome(put(b, a.answer[2][2]), bl, a.queue, ReadyNone, log)

LibInner(b, bl, a, log) == LibAfterInner(b, bl, a, Append(log, <<"inner", a.answer>>))

\* Body::poll_next of lib.rs, the match on the parser's answer r
LibAfterNext(r, q, ended, log) ==
  IF r.result # NoEvent
    THEN Outcome(r.buf, r.builder, q, YieldParsed(r.result), log)
    ELSE LibInner(r.buf, r.builder, inner_poll(q, ended), log)

\* Body::poll_next of lib.rs: one call of the parser, one of upstream
poll_next_lib(b, bl, q, ended) ==
  LibAfterNext(next(b, bl), q, ended, <<<<"next", next(b, bl).result>>>>)

\* ------------------------------------------------------------------ state

VARIABLES
  buf,      \* Parser.buf
  builder,  \* Parser.builder
  last,     \* the last call on the parser: its name, its result and what it read
  seen,     \* what the lines extracted since the last emitted Event carried
  inner,    \* Body.inner: the items upstream has ready and not yet handed over
  ended,    \* Body.inner has ended: no item follows those it has ready
  arrived,  \* the number of items upstream has produced
  lastPoll, \* the last poll of the adapter: its result and the calls it made
  input,    \* two byte streams to compare, a for this parser and b for the twin,
            \* and the lines both are made of when they differ in terminators
  fed,      \* the number of bytes of input.a put so far, and the widest chunk
  events,   \* what next() has returned for input.a, "no event yet" left out
  twin      \* a second Parser, fed input.b in one put: buf, builder, events

parserVars == <<buf, builder, last, seen>>

bodyVars == <<inner, ended, arrived, lastPoll>>

pairVars == <<input, fed, events, twin>>

vars ==
  <<buf, builder, last, seen, inner, ended, arrived, lastPoll, input, fed, events, twin>>

MaxBuf == 7

MaxData == 1

\* The byte strings a caller hands to put() in one call: field lines, a
\* comment, a line with an invalid value, and the terminator bytes
Chunks ==
  { NameData, NameData \o <<COLON, 49>>,
    NameId, NameId \o <<COLON, SPACE, 49>>,
    NameId \o <<COLON, NULL>>, NameId \o <<COLON, 255>>,
    NameEvent \o <<COLON>>, NameRetry \o <<COLON>>, <<120, COLON, 49>>, <<COLON, 49>>,
    <<CR>>, <<LF>> }

\* The field a line states, read off the wire format: nothing for a blank
\* line or a comment, else the name before the first colon and the value
\* after it, less one leading space
FieldOf(line) ==
  IF line = <<>> \/ line[1] = COLON THEN None
  ELSE IF \E i \in 1..Len(line) : line[i] = COLON
    THEN LET i == CHOOSE k \in 1..Len(line) :
                    line[k] = COLON /\ \A j \in 1..(k - 1) : line[j] # COLON
             raw == SubSeq(line, i + 1, Len(line))
         IN  Some([name |-> SubSeq(line, 1, i - 1),
                   value |-> IF raw # <<>> /\ raw[1] = SPACE THEN Tail(raw) ELSE raw])
  ELSE Some([name |-> line, value |-> <<>>])

\* A field the parser accepts: its value decodes as UTF-8
Accepted(line) == IsSome(FieldOf(line)) /\ Utf8Valid(FieldOf(line)[1].value)

NothingSeen == [data |-> <<>>, id |-> None]

RECURSIVE Observe(_, _)
\* seen, after the lines of trace: the values of the accepted data fields in
\* order, and the value of the last accepted id field without U+0000
Observe(s, trace) ==
  IF trace = <<>> THEN s
  ELSE LET line == Head(trace).line
           f == FieldOf(line)[1]
           s1 == IF ~Accepted(line) THEN s
                 ELSE IF f.name = NameData THEN [s EXCEPT !.data = Append(@, f.value)]
                 ELSE IF f.name = NameId /\ ~ContainsNull(f.value)
                   THEN [s EXCEPT !.id = Some(f.value)]
                 ELSE s
       IN  Observe(s1, Tail(trace))

\* Two fresh parsers and the streams a and b to feed them
InitPair(a, b, lines) ==
  /\ input = [a |-> a, b |-> b, lines |-> lines]
  /\ fed = [bytes |-> 0, widest |-> 0, drained |-> TRUE]
  /\ events = <<>>
  /\ twin = [buf |-> <<>>, builder |-> EmptyBuilder, events |-> <<>>, phase |-> "new"]

\* Parser::default()
Init ==
  /\ InitPair(<<>>, <<>>, <<>>)
  /\ buf = <<>>
  /\ builder = EmptyBuilder
  /\ last = [op |-> "new", result |-> NoEvent, trace |-> <<>>, buf0 |-> <<>>,
             seen |-> NothingSeen]
  /\ seen = NothingSeen
  /\ inner = <<>>
  /\ ended = FALSE
  /\ arrived = 0
  /\ lastPoll = [result |-> Pending, log |-> <<>>]

\* A call of Parser::put
Put ==
  \E bs \in Chunks :
    /\ Len(buf) + Len(bs) <= MaxBuf
    /\ Len(seen.data) <= MaxData
    /\ buf' = put(buf, bs)
    /\ last' = [op |-> "put", result |-> NoEvent, trace |-> <<>>, buf0 |-> <<>>,
                seen |-> NothingSeen]
    /\ UNCHANGED <<builder, seen>>
    /\ UNCHANGED bodyVars
    /\ UNCHANGED pairVars

\* A call of Parser::next
CallNext ==
  LET r == next(buf, builder)
      s == Observe(seen, r.trace)
  IN  /\ buf' = r.buf
      /\ builder' = r.builder
      /\ last' = [op |-> "next", result |-> r.result, trace |-> r.trace,
                  buf0 |-> buf, seen |-> s]
      /\ seen' = IF r.result[1] = "ok" THEN NothingSeen ELSE s
      /\ UNCHANGED bodyVars
      /\ UNCHANGED pairVars

Next == Put \/ CallNext

Spec == Init /\ [][Next]_vars

\* ------------------------------------------------------------------ the adapter and its upstream

MaxChunks == 4

\* The chunks upstream delivers: "data:1\n", "\nid\n\n", "id:\xFF\r\n",
\* "data", "\r\n", "\n"
BodyChunks ==
  { NameData \o <<COLON, 49, LF>>, <<LF>> \o NameId \o <<LF, LF>>,
    NameId \o <<COLON, 255, CR, LF>>, NameData, <<CR, LF>>, <<LF>> }

\* Upstream has a chunk ready
Arrive ==
  \E bs \in BodyChunks :
    /\ ~ended
    /\ arrived < MaxChunks
    /\ inner' = Append(inner, <<"chunk", bs>>)
    /\ arrived' = arrived + 1
    /\ UNCHANGED <<ended, lastPoll>>
    /\ UNCHANGED parserVars
    /\ UNCHANGED pairVars

\* Upstream has an error ready
Fail ==
  /\ ~ended
  /\ arrived < MaxChunks
  /\ inner' = Append(inner, <<"err", "E">>)
  /\ arrived' = arrived + 1
  /\ UNCHANGED <<ended, lastPoll>>
  /\ UNCHANGED parserVars
  /\ UNCHANGED pairVars

\* Upstream ends
Close ==
  /\ ~ended
  /\ ended' = TRUE
  /\ UNCHANGED <<inner, arrived, lastPoll>>
  /\ UNCHANGED parserVars
  /\ UNCHANGED pairVars

\* A call of Body::poll_next (body.rs)
Poll ==
  LET r == poll_next(buf, builder, inner, ended)
  IN  /\ buf' = r.buf
      /\ builder' = r.builder
      /\ inner' = r.queue
      /\ lastPoll' = [result |-> r.result, log |-> r.log]
      /\ UNCHANGED <<ended, arrived, last, seen>>
      /\ UNCHANGED pairVars

NextBody == Arrive \/ Fail \/ Close \/ Poll

SpecBody == Init /\ [][NextBody]_vars

\* A call of Body::poll_next (lib.rs)
PollLib ==
  LET r == poll_next_lib(buf, builder, inner, ended)
  IN  /\ buf' = r.buf
      /\ builder' = r.builder
      /\ inner' = r.queue
      /\ lastPoll' = [result |-> r.result, log |-> r.log]
      /\ UNCHANGED <<ended, arrived, last, seen>>
      /\ UNCHANGED pairVars

NextLib == Arrive \/ Fail \/ Close \/ PollLib

SpecLib == Init /\ [][NextLib]_vars

\* ------------------------------------------------------------------ two parsers on two streams

MaxPieces == 5

\* What the streams are made of: "data:1", "id", CR, LF
Pieces == { NameData \o <<COLON, 49>>, NameId, <<CR>>, <<LF>> }

RECURSIVE Concat(_)
Concat(ss) == IF ss = <<>> THEN <<>> ELSE Head(ss) \o Concat(Tail(ss))

Streams == { Concat(ps) : ps \in UNION { [1..k -> Pieces] : k \in 1..MaxPieces } }

\* The twin is handed input.b in a single put
TwinPut ==
  /\ twin.phase = "new"
  /\ twin' = [twin EXCEPT !.buf = put(twin.buf, input.b), !.phase = "drain"]
  /\ UNCHANGED <<input, fed, events>>
  /\ UNCHANGED parserVars
  /\ UNCHANGED bodyVars

\* The twin's caller calls next() until it returns "no event yet"
TwinNext ==
  /\ twin.phase = "drain"
  /\ LET r == next(twin.buf, twin.builder)
     IN  twin' = [buf |-> r.buf, builder |-> r.builder,
                  events |-> IF r.result = NoEvent THEN twin.events
                             ELSE Append(twin.events, r.result),
                  phase |-> IF r.result = NoEvent THEN "done" ELSE "drain"]
  /\ UNCHANGED <<input, fed, events>>
  /\ UNCHANGED parserVars
  /\ UNCHANGED bodyVars

\* The parser is handed the next n bytes of input.a
Feed ==
  \E n \in 1..(Len(input.a) - fed.bytes) :
    /\ twin.phase = "done"
    /\ fed.drained
    /\ buf' = put(buf, SubSeq(input.a, fed.bytes + 1, fed.bytes + n))
    /\ fed' = [bytes |-> fed.bytes + n,
               widest |-> IF n > fed.widest THEN n ELSE fed.widest,
               drained |-> FALSE]
    /\ UNCHANGED <<builder, last, seen, input, events, twin>>
    /\ UNCHANGED bodyVars

\* The parser's caller calls next() until it returns "no event yet"
Drain ==
  /\ ~fed.drained
  /\ LET r == next(buf, builder)
     IN  /\ buf' = r.buf
         /\ builder' = r.builder
         /\ events' = IF r.result = NoEvent THEN events ELSE Append(events, r.result)
         /\ fed' = [fed EXCEPT !.drained = (r.result = NoEvent)]
  /\ UNCHANGED <<last, seen, input, twin>>
  /\ UNCHANGED bodyVars

NextPair == TwinPut \/ TwinNext \/ Feed \/ Drain

\* One stream, the twin fed it whole and the parser fed it in chunks
InitChunks ==
  /\ \E st \in Streams : InitPair(st, st, <<>>)
  /\ buf = <<>>
  /\ builder = EmptyBuilder
  /\ last = [op |-> "new", result |-> NoEvent, trace |-> <<>>, buf0 |-> <<>>,
             seen |-> NothingSeen]
  /\ seen = NothingSeen
  /\ inner = <<>>
  /\ ended = FALSE
  /\ arrived = 0
  /\ lastPoll = [result |-> Pending, log |-> <<>>]

SpecChunks == InitChunks /\ [][NextPair]_vars

\* Both parsers have been fed all of their stream and drained
BothDone == twin.phase = "done" /\ fed.bytes = Len(input.a) /\ fed.drained

\* C1: a parser fed a byte sequence in chunks, however the sequence is split
\* (one byte a chunk included), and drained after each chunk returns the same
\* sequence of Events as a parser fed the sequence in one chunk and drained.
C1_ChunkingIndependent == BothDone => events = twin.events

\* The same, for the split into chunks of one byte
C1_BytewiseIndependent == (BothDone /\ fed.widest = 1) => events = twin.events

\* ------------------------------------------------------------------ two terminators for one line

MaxLines == 3

\* The contents of a line: a data field, an id field, nothing
Bodies == { NameData \o <<COLON, 49>>, NameId, <<>> }

\* The three line terminators: CRLF, lone CR, lone LF
Terminators == { <<CR, LF>>, <<CR>>, <<LF>> }

RECURSIVE Encode(_, _)
\* The stream of the lines, each followed by its terminator
Encode(lines, terms) ==
  IF lines = <<>> THEN <<>>
  ELSE Head(lines) \o Head(terms) \o Encode(Tail(lines), Tail(terms))

\* Every lone CR of the stream stays one: the byte after it is not LF
LoneCRsStayLone(lines, terms) ==
  \A i \in 1..(Len(lines) - 1) :
    ~(terms[i] = <<CR>> /\ lines[i + 1] = <<>> /\ terms[i + 1] = <<LF>>)

\* The parser is handed input.a in a single put
FeedAll ==
  /\ twin.phase = "done"
  /\ fed.bytes = 0
  /\ buf' = put(buf, input.a)
  /\ fed' = [bytes |-> Len(input.a), widest |-> Len(input.a), drained |-> FALSE]
  /\ UNCHANGED <<builder, last, seen, input, events, twin>>
  /\ UNCHANGED bodyVars

NextTerms == TwinPut \/ TwinNext \/ FeedAll \/ Drain

\* The same lines under two choices of terminators, a and b
InitTerms ==
  /\ \E k \in 1..MaxLines :
       \E lines \in [1..k -> Bodies] :
         \E ta \in [1..k -> Terminators] :
           \E tb \in [1..k -> Terminators] :
             /\ LoneCRsStayLone(lines, ta)
             /\ LoneCRsStayLone(lines, tb)
             /\ InitPair(Encode(lines, ta), Encode(lines, tb), lines)
  /\ buf = <<>>
  /\ builder = EmptyBuilder
  /\ last = [op |-> "new", result |-> NoEvent, trace |-> <<>>, buf0 |-> <<>>,
             seen |-> NothingSeen]
  /\ seen = NothingSeen
  /\ inner = <<>>
  /\ ended = FALSE
  /\ arrived = 0
  /\ lastPoll = [result |-> Pending, log |-> <<>>]

SpecTerms == InitTerms /\ [][NextTerms]_vars

\* C2: two streams of the same lines that differ only in which of CRLF, lone
\* CR and lone LF ends each line, each put whole into a fresh parser, make
\* next() return the same sequence of Events.
C2_TerminatorIndependent ==
  (BothDone /\ input.lines # <<>>) => events = twin.events

\* ------------------------------------------------------------------ one field, with and without a space

MaxValue == 3

\* The bytes a value is made of: space, "x", colon
ValueBytes == {SPACE, 120, COLON}

Values == UNION { [1..k -> ValueBytes] : k \in 0..MaxValue }

\* The names of the fields an Event carries
EventFields == {NameEvent, NameData, NameId}

\* A block of the one line name:value, with sp spaces after the colon, and
\* the blank line that ends it
OneFieldBlock(name, sp, value) == name \o <<COLON>> \o sp \o value \o <<LF, LF>>

\* Two fresh parsers: stream a holds name:value, stream b name: value
InitValue ==
  /\ \E name \in EventFields :
       \E value \in Values :
         InitPair(OneFieldBlock(name, <<>>, value), OneFieldBlock(name, <<SPACE>>, value),
                  <<name, value>>)
  /\ buf = <<>>
  /\ builder = EmptyBuilder
  /\ last = [op |-> "new", result |-> NoEvent, trace |-> <<>>, buf0 |-> <<>>,
             seen |-> NothingSeen]
  /\ seen = NothingSeen
  /\ inner = <<>>
  /\ ended = FALSE
  /\ arrived = 0
  /\ lastPoll = [result |-> Pending, log |-> <<>>]

SpecValue == InitValue /\ [][NextTerms]_vars

\* The Event of a block whose one field is name with the value v
EventOf(name, v) ==
  [event |-> IF name = NameEvent THEN v ELSE <<>>,
   data |-> IF name = NameData THEN v ELSE <<>>,
   last_event_id |-> IF name = NameId THEN Some(v) ELSE None]

\* v less one leading space, if it has one
LessOneSpace(v) == IF v # <<>> /\ v[1] = SPACE THEN Tail(v) ELSE v

\* C13: the value of a field is what follows the first colon, less exactly
\* one space when a space follows the colon: name: v gives the Event of v
\* whatever v begins with, name:v gives the Event of v less one leading space
\* (the same Event when v begins with no space), and a line that ends in the
\* colon gives the empty value.
C13_OneSpaceStripped ==
  BothDone =>
    /\ events = <<OkEvent(EventOf(input.lines[1], LessOneSpace(input.lines[2])))>>
    /\ twin.events = <<OkEvent(EventOf(input.lines[1], input.lines[2]))>>

\* "data:  x" was parsed: the data is " x", with one leading space
C13_Witness ==
  /\ BothDone
  /\ input.lines = <<NameData, <<SPACE, SPACE, 120>>>>
  /\ events[1][2].data = <<SPACE, 120>>
  /\ twin.events[1][2].data = <<SPACE, SPACE, 120>>

\* ------------------------------------------------------------------ a parser made from a stream

MaxFrom == 4

\* The contents of a line: nothing, "data", "event:", "id", "id:\0",
\* "retry:1", "x:1", "x:\xFF", ":1", "data:\xFF"
LineBodies ==
  { <<>>, NameData, NameEvent \o <<COLON>>, NameId, NameId \o <<COLON, NULL>>,
    NameRetry \o <<COLON, 49>>, <<120, COLON, 49>>,
    <<120, COLON, 255>>, <<COLON, 49>>, NameData \o <<COLON, 255>> }

\* Parser::from(&[u8]) on a stream of lines, each ended by a line feed
InitFrom ==
  /\ \E k \in 1..MaxFrom :
       \E lines \in [1..k -> LineBodies] :
         buf = Encode(lines, [i \in 1..k |-> <<LF>>])
  /\ InitPair(<<>>, <<>>, <<>>)
  /\ builder = EmptyBuilder
  /\ last = [op |-> "new", result |-> NoEvent, trace |-> <<>>, buf0 |-> <<>>,
             seen |-> NothingSeen]
  /\ seen = NothingSeen
  /\ inner = <<>>
  /\ ended = FALSE
  /\ arrived = 0
  /\ lastPoll = [result |-> Pending, log |-> <<>>]

SpecFrom == InitFrom /\ [][CallNext]_vars

\* The last call on the parser was next() and returned an Event
Emitted == last.op = "next" /\ last.result[1] = "ok"

\* The lines last.trace[h + 1] .. last.trace[j - 1] are one block and
\* last.trace[j] is the blank line that ends it: none of them is blank, and
\* the block begins after a blank line or with no field set in the builder
BlockEndsAt(h, j) ==
  /\ h < j
  /\ last.trace[j].line = <<>>
  /\ \A i \in (h + 1)..(j - 1) : last.trace[i].line # <<>>
  /\ \/ h >= 1 /\ last.trace[h].line = <<>>
     \/ h = 0 /\ last.trace[1].builder = EmptyBuilder

\* The call of next() returned an Event at the line last.trace[j]
DispatchedAt(j) == j = Len(last.trace) /\ last.result[1] = "ok"

\* The name of a field line, the empty name for a blank line or a comment
NameOf(line) == IF IsSome(FieldOf(line)) THEN FieldOf(line)[1].name ELSE <<>>

\* A line that sets a field of the Event: a value that decodes as UTF-8, for
\* event or data, or for id when it holds no U+0000
SetsField(line) ==
  /\ Accepted(line)
  /\ \/ NameOf(line) \in {NameEvent, NameData}
     \/ NameOf(line) = NameId /\ ~ContainsNull(FieldOf(line)[1].value)

\* C14 as stated: a blank line dispatches the block it ends whenever the
\* block holds a line named event, data, id or retry.
C14_AnyRecognizedNameDispatches ==
  last.op = "next" =>
    \A j \in 1..Len(last.trace) : \A h \in 0..(j - 1) :
      (BlockEndsAt(h, j) /\ \E i \in (h + 1)..(j - 1) :
         NameOf(last.trace[i].line) \in {NameEvent, NameData, NameId, NameRetry})
        => DispatchedAt(j)

\* C14: a blank line dispatches the block it ends exactly when the block
\* holds a line that sets a field: an event or data line, or an id line
\* without U+0000, with a value that decodes as UTF-8.  A block of retry
\* lines, of id lines with U+0000, of unrecognized names and of comments
\* dispatches nothing.
C14_SetFieldDispatches ==
  last.op = "next" =>
    \A j \in 1..Len(last.trace) : \A h \in 0..(j - 1) :
      BlockEndsAt(h, j) =>
        (DispatchedAt(j) <=> \E i \in (h + 1)..(j - 1) : SetsField(last.trace[i].line))

\* One call of next() passed a block of a retry line alone, which dispatched
\* nothing, and returned the Event of the block after it
C14_Witness ==
  /\ Emitted
  /\ Len(last.trace) = 4
  /\ NameOf(last.trace[1].line) = NameRetry
  /\ BlockEndsAt(0, 2)
  /\ BlockEndsAt(2, 4)

\* ------------------------------------------------------------------ two adapters on one upstream

MaxItems == 3

MaxPending == 2

\* What upstream yields: the chunks "data:1\n", "\n", "id\n\n", and an error
Items ==
  { <<"chunk", NameData \o <<COLON, 49, LF>>>>, <<"chunk", <<LF>>>>,
    <<"chunk", NameId \o <<LF, LF>>>>, <<"err", "E">> }

\* The twin adapter finds every item of input.b ready and upstream ended;
\* its consumer polls it until it reports end of stream
TwinPoll ==
  /\ twin.phase # "done"
  /\ LET r == poll_next(twin.buf, twin.builder, twin.queue, TRUE)
     IN  twin' = [buf |-> r.buf, builder |-> r.builder, queue |-> r.queue,
                  events |-> IF r.result[1] = "ready" THEN Append(twin.events, r.result[2])
                             ELSE twin.events,
                  phase |-> IF r.result = ReadyNone THEN "done" ELSE "drain"]
  /\ UNCHANGED <<input, fed, events>>
  /\ UNCHANGED parserVars
  /\ UNCHANGED bodyVars

\* Upstream has the next item of input.a ready
Deliver ==
  /\ twin.phase = "done"
  /\ ~ended
  /\ fed.bytes < Len(input.a)
  /\ inner' = Append(inner, input.a[fed.bytes + 1])
  /\ arrived' = arrived + 1
  /\ fed' = [fed EXCEPT !.bytes = @ + 1]
  /\ UNCHANGED <<ended, lastPoll, input, events, twin>>
  /\ UNCHANGED parserVars

\* Upstream ends after the last item of input.a
Exhaust ==
  /\ twin.phase = "done"
  /\ ~ended
  /\ fed.bytes = Len(input.a)
  /\ ended' = TRUE
  /\ UNCHANGED <<inner, arrived, lastPoll>>
  /\ UNCHANGED parserVars
  /\ UNCHANGED pairVars

\* The consumer polls the adapter (body.rs) and keeps what the poll yields;
\* fed.widest counts the polls that found upstream not ready
Consume ==
  /\ twin.phase = "done"
  /\ ~fed.drained
  /\ \E r \in {poll_next(buf, builder, inner, ended)} :
       /\ buf' = r.buf
       /\ builder' = r.builder
       /\ inner' = r.queue
       /\ lastPoll' = [result |-> r.result, log |-> r.log]
       /\ events' = IF r.result[1] = "ready" THEN Append(events, r.result[2]) ELSE events
       /\ fed' = [fed EXCEPT
                    !.widest = IF r.result = Pending /\ @ < MaxPending THEN @ + 1 ELSE @,
                    !.drained = (r.result = ReadyNone)]
  /\ UNCHANGED <<ended, arrived, last, seen, input, twin>>

NextSuspend == TwinPoll \/ Deliver \/ Exhaust \/ Consume

\* An item of upstream that is a chunk
IsChunkItem(it) == it[1] = "chunk"

\* The chunks of the items, the errors left out
ChunksOnly(its) == SelectSeq(its, IsChunkItem)

\* Two fresh adapters: one over a sequence of upstream items, the twin over
\* the same sequence or over its chunks alone
InitSuspend ==
  /\ \E k \in 1..MaxItems :
       \E its \in [1..k -> Items] :
         \E tw \in {its, ChunksOnly(its)} :
           /\ input = [a |-> its, b |-> tw, lines |-> <<>>]
           /\ twin = [buf |-> <<>>, builder |-> EmptyBuilder, queue |-> tw,
                      events |-> <<>>, phase |-> "new"]
  /\ fed = [bytes |-> 0, widest |-> 0, drained |-> FALSE]
  /\ events = <<>>
  /\ buf = <<>>
  /\ builder = EmptyBuilder
  /\ last = [op |-> "new", result |-> NoEvent, trace |-> <<>>, buf0 |-> <<>>,
             seen |-> NothingSeen]
  /\ seen = NothingSeen
  /\ inner = <<>>
  /\ ended = FALSE
  /\ arrived = 0
  /\ lastPoll = [result |-> Pending, log |-> <<>>]

SpecSuspend == InitSuspend /\ [][NextSuspend]_vars

\* Both adapters have reported end of stream after every item of the input
SuspendDone == twin.phase = "done" /\ fed.drained /\ fed.bytes = Len(input.a)

\* C11: a poll that finds upstream with nothing ready and not ended changes
\* the parser only as its call of next() does, and changes nothing when the
\* poll before it was answered "not ready" too; the items the adapter yields
\* are the same whether every item was ready at the first poll or the items
\* arrived one by one with any number of "not ready" polls in between.
C11_SuspendKeepsState ==
  /\ []((SuspendDone /\ input.a = input.b) => events = twin.events)
  /\ [][(inner = <<>> /\ inner' = <<>> /\ ~ended /\ ~ended' /\ twin' = twin) =>
          /\ buf' = next(buf, builder).buf
          /\ builder' = next(buf, builder).builder
          /\ lastPoll.result = Pending =>
               (lastPoll'.result = Pending /\ buf' = buf /\ builder' = builder)]_vars

\* The adapter was answered "not ready" at least twice while the items
\* arrived, and yielded an Event that carries data
C11_Witness ==
  /\ SuspendDone
  /\ input.a = input.b
  /\ fed.widest >= 2
  /\ \E i \in 1..Len(events) : events[i][1] = "ok" /\ events[i][2].data # <<>>

\* An item the adapter yielded that is a transport error
IsInnerError(y) == y[1] = "err" /\ y[2][1] = "Inner"

IsNoInnerError(y) == ~IsInnerError(y)

\* The item the adapter yields for an error item of upstream
AsInnerError(it) == <<"err", ErrorInner(it[2])>>

IsErrorItem(it) == it[1] = "err"

RECURSIVE Replay(_, _, _)
\* The parser after the calls a poll's log records, from buffer b and builder
\* bl: next() for a "next" entry, put() for a chunk upstream handed over
Replay(b, bl, log) ==
  IF log = <<>> THEN [buf |-> b, builder |-> bl]
  ELSE IF Head(log)[1] = "next"
    THEN Replay(next(b, bl).buf, next(b, bl).builder, Tail(log))
  ELSE IF Head(log)[2][1] = "ready" /\ Head(log)[2][2][1] = "chunk"
    THEN Replay(put(b, Head(log)[2][2][2]), bl, Tail(log))
  ELSE Replay(b, bl, Tail(log))

\* C12: the poll that is handed an error by upstream yields it as the Inner
\* variant and makes no further call, and the parser is as the poll's calls
\* of put() and next() before the error left it; over the whole stream every
\* error of upstream is yielded once, in order, and the other items the
\* adapter yields are those it yields for the chunks alone.
C12_UpstreamErrorPassedOn ==
  /\ [](SuspendDone =>
          SelectSeq(events, IsInnerError) =
            [i \in 1..Len(SelectSeq(input.a, IsErrorItem)) |->
               AsInnerError(SelectSeq(input.a, IsErrorItem)[i])])
  /\ []((SuspendDone /\ input.b = ChunksOnly(input.a)) =>
          SelectSeq(events, IsNoInnerError) = twin.events)
  /\ [][(fed'.bytes = fed.bytes /\ ended' = ended /\ twin' = twin) =>
          LET log == lastPoll'.log
              n == Len(log)
              handed == log[n][1] = "inner" /\ log[n][2][1] = "ready"
                          /\ log[n][2][2][1] = "err"
          IN  /\ handed =>
                   /\ lastPoll'.result = ReadySome(AsInnerError(log[n][2][2]))
                   /\ buf' = Replay(buf, builder, log).buf
                   /\ builder' = Replay(buf, builder, log).builder
              /\ (lastPoll'.result[1] = "ready" /\ IsInnerError(lastPoll'.result[2]))
                   => handed]_vars

\* Upstream yielded "data:1\n", an error, "\n": the adapter yielded the error
\* and then the Event of the block the error interrupted
C12_Witness ==
  /\ SuspendDone
  /\ input.b = ChunksOnly(input.a)
  /\ Len(input.a) = 3
  /\ IsErrorItem(input.a[2])
  /\ input.a[3] = <<"chunk", <<LF>>>>
  /\ Len(events) = 2
  /\ IsInnerError(events[1])
  /\ events[2][1] = "ok"
  /\ events[2][2].data = <<49>>

\* ------------------------------------------------------------------ a consumer that polls to the end

\* The consumer polls the adapter of lib.rs and keeps what the poll yields;
\* fed.drained says that a poll has reported end of stream
ConsumeLib ==
  /\ \E r \in {poll_next_lib(buf, builder, inner, ended)} :
       /\ buf' = r.buf
       /\ builder' = r.builder
       /\ inner' = r.queue
       /\ lastPoll' = [result |-> r.result, log |-> r.log]
       /\ events' = IF r.result[1] = "ready" THEN Append(events, r.result[2]) ELSE events
       /\ fed' = [fed EXCEPT
                    !.widest = IF r.result = Pending /\ @ < MaxPending THEN @ + 1 ELSE @,
                    !.drained = (@ \/ r.result = ReadyNone)]
  /\ UNCHANGED <<ended, arrived, last, seen, input, twin>>

NextDeliverLib == Deliver \/ Exhaust \/ ConsumeLib

NextDeliverBody == Deliver \/ Exhaust \/ Consume

\* A fresh adapter over a sequence of chunks, no error among them
InitDeliver ==
  /\ \E k \in 1..MaxItems :
       \E its \in [1..k -> {it \in Items : IsChunkItem(it)}] :
         input = [a |-> its, b |-> its, lines |-> <<>>]
  /\ twin = [buf |-> <<>>, builder |-> EmptyBuilder, queue |-> <<>>,
             events |-> <<>>, phase |-> "done"]
  /\ fed = [bytes |-> 0, widest |-> 0, drained |-> FALSE]
  /\ events = <<>>
  /\ buf = <<>>
  /\ builder = EmptyBuilder
  /\ last = [op |-> "new", result |-> NoEvent, trace |-> <<>>, buf0 |-> <<>>,
             seen |-> NothingSeen]
  /\ seen = NothingSeen
  /\ inner = <<>>
  /\ ended = FALSE
  /\ arrived = 0
  /\ lastPoll = [result |-> Pending, log |-> <<>>]

\* Upstream delivers every chunk and then ends, and the consumer keeps polling
SpecDeliverLib ==
  /\ InitDeliver
  /\ [][NextDeliverLib]_vars
  /\ WF_vars(Deliver)
  /\ WF_vars(Exhaust)
  /\ WF_vars(ConsumeLib)

\* The same upstream and consumer for the adapter of body.rs, with no
\* fairness stated
SpecDeliverBody == InitDeliver /\ [][NextDeliverBody]_vars

\* ------------------------------------------------------------------ claims on the parser

RECURSIVE JoinLF(_)
\* v1 + "\n" + v2 + ... + "\n" + vk, the empty string for no value
JoinLF(vs) ==
  IF vs = <<>> THEN <<>>
  ELSE IF Len(vs) = 1 THEN vs[1]
  ELSE vs[1] \o <<LF>> \o JoinLF(Tail(vs))

\* C3: the Event emitted for a block has as data the values of the block's
\* data fields, in arrival order, joined by single line feeds, with no line
\* feed added before the first or after the last; the empty string when the
\* block had no data field.
C3_DataJoined == Emitted => last.result[2].data = JoinLF(last.seen.data)

\* An Event was emitted for a block with at least two data fields of
\* different values, one of them empty (a data line without colon)
C3_Witness ==
  /\ Emitted
  /\ Len(last.seen.data) >= 2
  /\ last.seen.data[1] # last.seen.data[2]
  /\ \E i \in 1..Len(last.seen.data) : last.seen.data[i] = <<>>

\* At least one of event_type, data, last_event_id is set
SomeFieldSet(b) == b.event_type # None \/ b.data # None \/ b.last_event_id # None

\* C4: next() returns an Event only when the last line it extracted is empty
\* and met a builder with a field set; an empty line that meets a builder with
\* no field set emits nothing: either next() goes on to the following line or,
\* no line being left, it returns "no event yet".
C4_EmitOnlyAtReadyBlank ==
  last.op = "next" =>
    LET tr == last.trace
        n == Len(tr)
    IN  /\ last.result[1] = "ok" =>
             n >= 1 /\ tr[n].line = <<>> /\ SomeFieldSet(tr[n].builder)
        /\ \A i \in 1..n :
             (tr[i].line = <<>> /\ ~SomeFieldSet(tr[i].builder)) =>
               \/ i < n /\ ~SomeFieldSet(tr[i + 1].builder)
               \/ i = n /\ last.result = NoEvent /\ Memchr2(CR, LF, buf) = None

\* One call of next() met an empty line with no field set, went on, and
\* emitted an Event at a later empty line
C4_Witness ==
  /\ Emitted
  /\ \E i \in 1..(Len(last.trace) - 1) :
       last.trace[i].line = <<>> /\ ~SomeFieldSet(last.trace[i].builder)

\* C5: an emitted Event's last_event_id is present exactly when an accepted
\* id field (valid UTF-8, no U+0000) was extracted since the previous
\* emission, and then holds the value of the last such field; an id field
\* of an earlier block is not carried forward.
C5_IdOfOwnBlock == Emitted => last.result[2].last_event_id = last.seen.id

\* An Event was emitted with last_event_id = Some("") for a block whose id
\* line has no colon
C5_Witness ==
  /\ Emitted
  /\ last.result[2].last_event_id = Some(<<>>)
  /\ \E i \in 1..Len(last.trace) : last.trace[i].line = NameId

\* C8: a call of next() that follows, with no put() in between, a call that
\* returned "no event yet" returns "no event yet" and changes neither the
\* buffer nor the builder.
C8_NoEventIdempotent ==
  [][(last.op = "next" /\ last.result = NoEvent /\ last'.op = "next") =>
       (last'.result = NoEvent /\ buf' = buf /\ builder' = builder)]_vars

\* next() has returned "no event yet" with an unterminated line left in the
\* buffer and a field set in the builder
C8_Witness ==
  /\ last.op = "next"
  /\ last.result = NoEvent
  /\ buf # <<>>
  /\ SomeFieldSet(builder)

\* The first index of b that holds CR or LF
FirstEol(b) == CHOOSE i \in 1..Len(b) : b[i] \in {CR, LF} /\ \A j \in 1..(i - 1) : b[j] \notin {CR, LF}

\* b without its first line and that line's terminator: CRLF when the CR is
\* followed by LF, else the one CR or LF
AfterLine(b) ==
  LET i == FirstEol(b)
  IN  IF b[i] = CR /\ i < Len(b) /\ b[i + 1] = LF
        THEN SubSeq(b, i + 2, Len(b))
        ELSE SubSeq(b, i + 1, Len(b))

RECURSIVE AfterLines(_, _)
AfterLines(b, k) == IF k = 0 THEN b ELSE AfterLines(AfterLine(b), k - 1)

\* A field line whose value is not valid UTF-8
InvalidLine(line) == IsSome(FieldOf(line)) /\ ~Utf8Valid(FieldOf(line)[1].value)

\* C6: next() returns a parse error exactly for the call that reaches a field
\* line whose value is not valid UTF-8, and when it returns it the buffer is
\* what followed that line and its terminator (CRLF, lone CR or lone LF), so
\* that the line is not met again.
C6_ErrorPastBadLine ==
  last.op = "next" =>
    LET tr == last.trace
        n == Len(tr)
    IN  /\ \A i \in 1..n : InvalidLine(tr[i].line) <=> (i = n /\ last.result = ErrUtf8)
        /\ last.result = ErrUtf8 => buf = AfterLines(last.buf0, n)

\* C15: when the first CR or LF of the buffer is at offset i, parse_line
\* returns the bytes before i and removes them with the terminator: both
\* bytes when byte i is CR and byte i + 1 is in the buffer and is LF, the
\* last two bytes of the buffer included, else the one byte; a buffer
\* without CR and LF is left as it is and no line is returned.
C15_LineAndTerminator ==
  IF Memchr2(CR, LF, buf) = None
    THEN parse_line(buf) = [line |-> None, buf |-> buf]
    ELSE /\ parse_line(buf).line = Some(SubSeq(buf, 1, FirstEol(buf) - 1))
         /\ parse_line(buf).buf = AfterLine(buf)

\* s is the last Len(s) elements of t
IsSuffix(s, t) == Len(s) <= Len(t) /\ s = SubSeq(t, Len(t) - Len(s) + 1, Len(t))

\* C16: the buffer is the end of the bytes put so far, the bytes before it
\* being those consumed; put() appends its chunk to the buffer, leaves the
\* builder as it is and emits nothing; next() leaves a suffix of the buffer
\* it found.
C16_BufferIsSuffixOfPut ==
  /\ [](IsSuffix(buf, SubSeq(input.a, 1, fed.bytes)))
  /\ [][fed'.bytes # fed.bytes =>
          /\ buf' = buf \o SubSeq(input.a, fed.bytes + 1, fed'.bytes)
          /\ builder' = builder
          /\ events' = events]_vars
  /\ [][(fed'.bytes = fed.bytes /\ twin' = twin) => IsSuffix(buf', buf)]_vars

\* Some bytes were consumed and an Event emitted, an unterminated line is
\* buffered, and a chunk was put behind it
C16_Witness ==
  /\ events # <<>>
  /\ buf # <<>>
  /\ ~fed.drained
  /\ Len(buf) < fed.bytes
  /\ Memchr2(CR, LF, buf) # None
  /\ buf[1] \notin {CR, LF}

\* The builder after the line last.trace[i] was processed
BuilderAfter(i) == IF i < Len(last.trace) THEN last.trace[i + 1].builder ELSE builder

\* The call of next() returned the parse error at the line last.trace[i]
ErrorAt(i) == i = Len(last.trace) /\ last.result = ErrUtf8

\* A field line whose name is none of event, data, id, retry
UnknownName(line) ==
  IsSome(FieldOf(line)) /\ NameOf(line) \notin {NameEvent, NameData, NameId, NameRetry}

\* C17 as stated: a line whose name is none of event, data, id, retry sets
\* no field of the builder and makes next() return no error.
C17_UnknownNameNeverFails ==
  last.op = "next" =>
    \A i \in 1..Len(last.trace) :
      UnknownName(last.trace[i].line) =>
        (BuilderAfter(i) = last.trace[i].builder /\ ~ErrorAt(i))

\* C17: a line whose name is none of event, data, id, retry leaves every
\* field of the builder, and so its readiness, as it was; next() goes on to
\* the following line when the line's value decodes as UTF-8 and returns the
\* parse error when it does not.
C17_UnknownNameSetsNothing ==
  last.op = "next" =>
    \A i \in 1..Len(last.trace) :
      UnknownName(last.trace[i].line) =>
        /\ BuilderAfter(i) = last.trace[i].builder
        /\ ErrorAt(i) <=> ~Utf8Valid(FieldOf(last.trace[i].line)[1].value)

\* A line named "x" was met with data set in the builder, and the Event of
\* the block was emitted at the blank line after it
C17_Witness ==
  /\ Emitted
  /\ \E i \in 1..(Len(last.trace) - 1) :
       /\ UnknownName(last.trace[i].line)
       /\ IsSome(last.trace[i].builder.data)
       /\ last.trace[i + 1].line = <<>>

\* An id line whose value decodes as UTF-8 and holds U+0000
NulId(line) ==
  /\ Accepted(line)
  /\ NameOf(line) = NameId
  /\ ContainsNull(FieldOf(line)[1].value)

\* C18: an id line whose value holds U+0000 returns no error and leaves
\* last_event_id, event_type and data as they were: an id accepted before
\* it in the block is kept, and an absent id stays absent.
C18_NulIdIgnored ==
  last.op = "next" =>
    \A i \in 1..Len(last.trace) :
      NulId(last.trace[i].line) =>
        (BuilderAfter(i) = last.trace[i].builder /\ ~ErrorAt(i))

\* An id line with U+0000 followed an accepted id line, and the Event of the
\* block carries the id accepted first
C18_Witness ==
  /\ Emitted
  /\ last.result[2].last_event_id = Some(<<>>)
  /\ \E i \in 2..Len(last.trace) :
       /\ NulId(last.trace[i].line)
       /\ last.trace[i - 1].line = NameId
       /\ last.trace[i].builder.last_event_id = Some(<<>>)

\* C20: when next() returns "no event yet" the buffer holds no CR and no
\* LF: it is what followed the last CR or LF of the buffer the call found,
\* every line before that having been extracted.
C20_NoEventLeavesPartialLine ==
  (last.op = "next" /\ last.result = NoEvent) =>
    /\ Memchr2(CR, LF, buf) = None
    /\ IsSuffix(buf, last.buf0)
    /\ Len(buf) < Len(last.buf0) => last.buf0[Len(last.buf0) - Len(buf)] \in {CR, LF}
    /\ (last.trace = <<>>) <=> (buf = last.buf0)

\* next() returned "no event yet" after it extracted a comment and a field
\* line, with an unterminated line left in the buffer
C20_Witness ==
  /\ last.op = "next"
  /\ last.result = NoEvent
  /\ Len(last.trace) >= 2
  /\ last.trace[1].line = <<COLON, 49>>
  /\ buf # <<>>

\* C21: when next() returns the parse error the builder is as the invalid
\* line found it; the call after it meets that builder, and when its first
\* line is the blank line of the block it returns the Event of the fields
\* the valid lines had set, the data being their data values joined.
C21_ErrorKeepsBuilder ==
  /\ []((last.op = "next" /\ last.result = ErrUtf8) =>
          /\ last.trace # <<>>
          /\ InvalidLine(last.trace[Len(last.trace)].line)
          /\ builder = last.trace[Len(last.trace)].builder)
  /\ [][(last.op = "next" /\ last.result = ErrUtf8 /\ last'.trace # <<>>) =>
          /\ last'.trace[1].builder = last.trace[Len(last.trace)].builder
          /\ (last'.trace[1].line = <<>> /\ SomeFieldSet(builder)) =>
               /\ last'.result =
                    OkEvent([event |-> TakeOrEmpty(builder.event_type),
                             data |-> TakeOrEmpty(builder.data),
                             last_event_id |-> builder.last_event_id])
               /\ last'.result[2].data = JoinLF(last'.seen.data)
               /\ last'.result[2].last_event_id = last'.seen.id]_vars

\* A call of next() began at the blank line of a block whose data an earlier
\* call had set before it returned the parse error, and returned the Event
C21_Witness ==
  /\ Emitted
  /\ last.trace[1].line = <<>>
  /\ IsSome(last.trace[1].builder.data)
  /\ last.result[2].data = <<>>

\* ------------------------------------------------------------------ claims on the adapter

Polled == lastPoll.log # <<>>

\* An entry of a poll's log in which upstream handed over a chunk
IsChunk(entry) == entry[1] = "inner" /\ entry[2][1] = "ready" /\ entry[2][2][1] = "chunk"

\* C7: a poll that finds upstream ended reports end of stream, whatever the
\* builder holds; once end of stream is reported every later poll reports it
\* again and neither the buffer nor the builder changes, so the fields of a
\* block that no blank line followed are never emitted.
C7_EndOfStreamNoDispatch ==
  /\ []((Polled /\ lastPoll.log[Len(lastPoll.log)] = <<"inner", ReadyNone>>)
          => lastPoll.result = ReadyNone)
  /\ [][lastPoll.result = ReadyNone =>
          (lastPoll'.result = ReadyNone /\ builder' = builder /\ buf' = buf)]_vars

\* End of stream was reported while the builder held the fields of a block
\* and the buffer an unterminated line
C7_Witness ==
  /\ lastPoll.result = ReadyNone
  /\ SomeFieldSet(builder)
  /\ buf # <<>>

\* C9: within one poll every chunk upstream yields is followed by a call of
\* the parser; the poll reports end of stream only when upstream answered
\* that it has ended and "not ready" only when upstream answered that, and an
\* Event or error the parser returns is what the poll yields.
C9_ChunkRetriesParser ==
  Polled =>
    LET log == lastPoll.log
        n == Len(log)
    IN  /\ lastPoll.result = ReadyNone => log[n] = <<"inner", ReadyNone>>
        /\ lastPoll.result = Pending => log[n] = <<"inner", Pending>>
        /\ \A i \in 1..n : IsChunk(log[i]) => (i < n /\ log[i + 1][1] = "next")
        /\ \A i \in 1..n :
             (log[i][1] = "next" /\ log[i][2] # NoEvent) =>
               (i = n /\ lastPoll.result = YieldParsed(log[i][2]))

\* A poll was fed a chunk and yielded the Event the chunk completed
C9_Witness ==
  /\ Polled
  /\ \E i \in 1..Len(lastPoll.log) : IsChunk(lastPoll.log[i])
  /\ lastPoll.result[1] = "ready"
  /\ lastPoll.result[2][1] = "ok"

\* C10: a poll calls the parser first; it calls upstream only right after the
\* parser returned "no event yet"; when the first call of the parser returns
\* an Event or an error, the poll yields it and makes no call of upstream.
C10_DrainBeforePull ==
  Polled =>
    LET log == lastPoll.log
        n == Len(log)
    IN  /\ log[1][1] = "next"
        /\ \A i \in 1..n : log[i][1] = "inner" => (i > 1 /\ log[i - 1] = <<"next", NoEvent>>)
        /\ log[1][2] # NoEvent => (n = 1 /\ lastPoll.result = YieldParsed(log[1][2]))

\* A poll yielded an Event from bytes already buffered while upstream had a
\* chunk ready, which it left with upstream
C10_Witness ==
  /\ Polled
  /\ Len(lastPoll.log) = 1
  /\ lastPoll.result[1] = "ready"
  /\ lastPoll.result[2][1] = "ok"
  /\ inner # <<>>

RECURSIVE LinesOf(_)
\* The lines of a stream that a terminator ends, in order
LinesOf(stream) ==
  IF \A i \in 1..Len(stream) : stream[i] \notin {CR, LF} THEN <<>>
  ELSE <<SubSeq(stream, 1, FirstEol(stream) - 1)>> \o LinesOf(AfterLine(stream))

\* What a block has set: the last event value, the data values, the last id
NothingSet == [event |-> None, data |-> <<>>, id |-> None]

\* acc, after a line that is not blank
SetBy(acc, line) ==
  IF ~SetsField(line) THEN acc
  ELSE IF NameOf(line) = NameEvent THEN [acc EXCEPT !.event = Some(FieldOf(line)[1].value)]
  ELSE IF NameOf(line) = NameData THEN [acc EXCEPT !.data = Append(@, FieldOf(line)[1].value)]
  ELSE [acc EXCEPT !.id = Some(FieldOf(line)[1].value)]

RECURSIVE EventsOfLines(_, _)
\* One Event for every blank-line-terminated block of the lines that set
\* event, data or id, in order; acc is what the open block has set
EventsOfLines(lines, acc) ==
  IF lines = <<>> THEN <<>>
  ELSE IF Head(lines) # <<>> THEN EventsOfLines(Tail(lines), SetBy(acc, Head(lines)))
  ELSE IF acc = NothingSet THEN EventsOfLines(Tail(lines), NothingSet)
  ELSE <<<<"ok", [event |-> TakeOrEmpty(acc.event), data |-> JoinLF(acc.data),
                  last_event_id |-> acc.id]>>>>
         \o EventsOfLines(Tail(lines), NothingSet)

\* The bytes of the chunks of a sequence of upstream items
RECURSIVE BytesOf(_)
BytesOf(its) == IF its = <<>> THEN <<>> ELSE Head(its)[2] \o BytesOf(Tail(its))

\* When a poll has reported end of stream, the items yielded are the Events
\* of the blocks of the whole input
AllEventsByEnd ==
  fed.drained => events = EventsOfLines(LinesOf(BytesOf(input.a)), NothingSet)

\* C19: when upstream delivers all its chunks and ends and the consumer keeps
\* polling, the adapter reports end of stream in the end, and by then it has
\* yielded, in order, one Event for every blank-line-terminated block that
\* set event, data or id, and nothing else.
C19_AllEventsThenEnd ==
  /\ [](AllEventsByEnd)
  /\ <>(fed.drained)

====
